---------------------------- MODULE Spec2Model ----------------------------
(***************************************************************************)
(* Model of the serial framing layer of SmartClock                         *)
(* (src/bluetooth_comm.py): crc8, _encode_frame, the receive loop          *)
(* (_rx_loop / _handle / _decode_sensor_report), start_communication,      *)
(* stop and send_actuator.                                                 *)
(*                                                                         *)
(* Bytes are the integers 0..255.  A bytes/bytearray value is a sequence   *)
(* of bytes; Python's 0-based slice x[a:b] is SubSeq(x, a+1, b).           *)
(***************************************************************************)
EXTENDS Integers, Sequences, FiniteSets, TLC

VARIABLES
    ser,        \* self._ser: "None" (never opened), "open", "closed"
    running,    \* self._running
    buf,        \* self._buf, the reassembly buffer
    q,          \* self._q, the consumer queue (readings, oldest first)
    q_max,      \* maxsize of the queue the session was given; 0: unbounded
    pending,    \* readings of the report being decoded that are not yet put
    line,       \* bytes the remote side has sent and no read has returned yet
    rx_pc,      \* position of the thread that runs start_communication
    rx_err,     \* the exception that ended start_communication, or "none"
    stop_pc,    \* position of the context that calls stop()
    snd_pc,     \* position of each context that calls send_actuator
    snd_arg,    \* the arguments of each send_actuator call
    snd_frame,  \* the local variable frame of each send_actuator call
    wire,       \* what the transport was given to write: <<sender, frame>>
    call,       \* a direct call of a function of the module, and its result
    offer,      \* the argument tuples the callers of send_actuator pass
    pumped,     \* history: the readings _pump_queue has taken, and whether it
                \* recorded them on a sensor of the registry
    sent,       \* history: the items the remote side put on the line
    handled,    \* history: the bodies passed to _handle, in order
    reads,      \* history: number of reads that returned at least one byte
    afterStop   \* history: reads entered after stop() returned

vars == <<ser, running, buf, q, q_max, pending, line, rx_pc, rx_err, stop_pc,
          snd_pc, snd_arg, snd_frame, wire, call, offer, pumped, sent, handled,
          reads, afterStop>>

-----------------------------------------------------------------------------
(* Program constants *)

START_BYTE == 85
CRC_POLY == 49
READ_MAX == 64
MIN_BUF == 5
CMD_SENSOR == 1
CMD_ACTUATOR == 32
ByteMod == 256

Byte == 0 .. (ByteMod - 1)

-----------------------------------------------------------------------------
(* Bounds of the model *)

\* longest short payload drawn for an encoded frame
MaxPay == 2
\* most TLV entries in a generated sensor report
MaxTlv == 2
\* the history counters reads and afterStop saturate here
ReadCap == 3

-----------------------------------------------------------------------------
(* Integer helpers: Python's ^ and & 0xFF on ints *)

\* a ^ b for a, b >= 0.  A function, so that its arguments are values when
\* it is applied.
xor[a \in Nat, b \in Nat] ==
    IF a = 0 THEN b
    ELSE IF b = 0 THEN a
    ELSE (((a % 2) + (b % 2)) % 2) + (2 * xor[a \div 2, b \div 2])

\* ^ on four-bit values, tabulated once
XorNibble == [a \in 0 .. 15 |-> [b \in 0 .. 15 |-> xor[a, b]]]

\* a ^ b: nibble by nibble for two bytes
Xor(a, b) ==
    IF a \in 0 .. 255 /\ b \in 0 .. 255
    THEN (XorNibble[a \div 16][b \div 16] * 16) + XorNibble[a % 16][b % 16]
    ELSE xor[a, b]

\* x & 0xFF for any Python int (two's complement for negatives)
And255(x) == x % ByteMod

Min(a, b) == IF a < b THEN a ELSE b

RECURSIVE Flatten(_)
Flatten(ss) == IF ss = <<>> THEN <<>> ELSE Head(ss) \o Flatten(Tail(ss))

\* n copies of the byte b
Fill(n, b) == [i \in 1 .. n |-> b]

-----------------------------------------------------------------------------
(* crc8 (bluetooth_comm.py:23-29) *)

\* CrcShift with the register masked to nine bits
CrcShift_NineBits(crc, poly) ==
    IF (crc \div 128) % 2 = 1 THEN (Xor(crc * 2, poly)) % (2 * ByteMod)
    ELSE (crc * 2) % (2 * ByteMod)

\* one pass of the inner loop body, line 28
CrcShift(crc, poly) ==
    IF crc >= 128 THEN (Xor(crc * 2, poly)) % ByteMod ELSE (crc * 2) % ByteMod

\* for _ in range(8): crc = ...
CrcBits(crc, poly) ==
    LET bits[n \in 0 .. 8, c \in Nat] ==
            IF n = 0 THEN c ELSE bits[n - 1, CrcShift(c, poly)]
    IN  bits[8, crc]

\* the eight shifts of lines 27-28 under the default polynomial, tabulated once
\* for every value of the register
CrcBitsDefault == [x \in Byte |-> CrcBits(x, CRC_POLY)]

\* lines 26-28 for one byte b of data
CrcByte(crc, b, poly) ==
    IF poly = CRC_POLY /\ crc \in Byte /\ b \in Byte
    THEN CrcBitsDefault[Xor(crc, b)]
    ELSE CrcBits(Xor(crc, b), poly)

\* lines 24-29.  The outer loop over data[lo..hi], entered with register c, is
\* evaluated by halving the range: the same left-to-right fold, nested only
\* to the logarithm of the length.
crc8p(data, poly, init) ==
    LET loop[lo \in Nat, hi \in Nat, c \in Nat] ==
            IF lo > hi THEN c
            ELSE IF lo = hi THEN CrcByte(c, data[lo], poly)
            ELSE loop[((lo + hi) \div 2) + 1, hi, loop[lo, (lo + hi) \div 2, c]]
    IN  loop[1, Len(data), init]

\* crc8 with the default poly and init
crc8(data) == crc8p(data, CRC_POLY, 0)

-----------------------------------------------------------------------------
(* _encode_frame (bluetooth_comm.py:105-110) *)

\* BytesOf without the range check: every element is reduced modulo 256
BytesOf_Wrap(list) ==
    [ok |-> TRUE, bytes |-> [i \in 1 .. Len(list) |-> list[i] % ByteMod]]

\* bytes(list): ValueError unless every element is in range(0, 256)
BytesOf(list) ==
    IF \A i \in 1 .. Len(list) : list[i] \in Byte
    THEN [ok |-> TRUE, bytes |-> list]
    ELSE [ok |-> FALSE, bytes |-> <<>>]

\* EncodeFrame whose length byte counts the payload only
EncodeFrame_LenOfPayload(cmd, node_id, payload) ==
    LET body  == <<And255(cmd), And255(node_id)>> \o payload
        hdr   == BytesOf(<<START_BYTE, Len(payload)>>)
        frame == hdr.bytes \o body
        crc   == crc8(Tail(frame))
    IN  IF ~hdr.ok THEN [err |-> "ValueError", frame |-> <<>>]
        ELSE [err |-> "none", frame |-> Append(frame, crc)]

\* EncodeFrame with the checksum taken over the start byte too
EncodeFrame_CrcFromStart(cmd, node_id, payload) ==
    LET body  == <<And255(cmd), And255(node_id)>> \o payload
        hdr   == BytesOf(<<START_BYTE, Len(body)>>)
        frame == hdr.bytes \o body
        crc   == crc8(frame)
    IN  IF ~hdr.ok THEN [err |-> "ValueError", frame |-> <<>>]
        ELSE [err |-> "none", frame |-> Append(frame, crc)]

\* result: [err |-> "none" or the exception, frame |-> the bytes returned]
EncodeFrame(cmd, node_id, payload) ==
    LET body  == <<And255(cmd), And255(node_id)>> \o payload
        hdr   == BytesOf(<<START_BYTE, Len(body)>>)
        frame == hdr.bytes \o body
        crc   == crc8(Tail(frame))
    IN  IF ~hdr.ok THEN [err |-> "ValueError", frame |-> <<>>]
        ELSE [err |-> "none", frame |-> Append(frame, crc)]

-----------------------------------------------------------------------------
(* _decode_sensor_report (bluetooth_comm.py:90-102) *)

DigitStr == <<"0", "1", "2", "3", "4", "5", "6", "7", "8", "9">>

RECURSIVE Dec(_)
\* str(n) for n >= 0
Dec(n) == IF n < 10 THEN DigitStr[n + 1] ELSE Dec(n \div 10) \o DigitStr[(n % 10) + 1]

\* f"{n:02d}" for n >= 0: decimal, zero-padded to at least two digits
Fmt02d(n) == IF n < 10 THEN "0" \o Dec(n) ELSE Dec(n)

\* TypeName without the default: a code outside the table is named by itself
TypeName_NoDefault(s_type) ==
    CASE s_type = 0 -> "TEMP"
      [] s_type = 1 -> "HUM"
      [] s_type = 2 -> "PRESS"
      [] OTHER      -> "T" \o Dec(s_type)

\* type_names.get(s_type, "GEN")
TypeName(s_type) ==
    CASE s_type = 0 -> "TEMP"
      [] s_type = 1 -> "HUM"
      [] s_type = 2 -> "PRESS"
      [] OTHER      -> "GEN"

\* raw / 10.0 as the decimal <<integer part, tenths digit>>
Tenths(raw) == <<raw \div 10, raw % 10>>

\* lines 96-102 for the entry at data[idx:idx+4] (idx 0-based)
DecodeEntry(node_id, data, idx) ==
    LET t_s    == data[idx + 1]
        hi     == data[idx + 2]
        lo     == data[idx + 3]
        s_type == t_s \div 16
        s_num  == t_s % 16
        raw    == (hi * 256) + lo
    IN  [sensor_id |-> TypeName(s_type) \o "_" \o Fmt02d(node_id)
                         \o "_" \o Dec(s_num),
         value     |-> Tenths(raw)]

RECURSIVE DecodeLoop_NoCount(_, _, _, _)
\* DecodeLoop that ignores the declared count and decodes every complete entry
DecodeLoop_NoCount(node_id, data, k, idx) ==
    IF idx + 4 > Len(data) THEN <<>>
    ELSE <<DecodeEntry(node_id, data, idx)>>
            \o DecodeLoop_NoCount(node_id, data, k, idx + 4)

RECURSIVE DecodeLoop(_, _, _, _)
\* the for loop with k iterations left and the index at idx; the readings put
DecodeLoop(node_id, data, k, idx) ==
    IF k = 0 \/ idx + 4 > Len(data) THEN <<>>
    ELSE <<DecodeEntry(node_id, data, idx)>>
            \o DecodeLoop(node_id, data, k - 1, idx + 4)

\* the readings _decode_sensor_report puts on the queue, in order
DecodeSensorReport(node_id, data) ==
    IF data = <<>> THEN <<>> ELSE DecodeLoop(node_id, data, data[1], 1)

-----------------------------------------------------------------------------
(* _handle and the reassembly loop of _rx_loop (bluetooth_comm.py:72-87)    *)
(*                                                                         *)
(* The loop works on a record st:                                          *)
(*   buf      self._buf                                                    *)
(*   q        self._q                                                      *)
(*   max      maxsize of self._q, 0 for an unbounded queue                 *)
(*   pending  readings of the current report whose put has not returned    *)
(*   handled  the bodies passed to _handle so far                          *)
(*   err      "none", or the exception that left the loop                  *)
(*   ctl      how the last iteration ended: "continue", "return", "raise", *)
(*            or "blocked" inside self._q.put on a full queue              *)
(***************************************************************************)

\* self._q.put(reading) for each of readings in turn, line 102: put has no
\* timeout, so on a queue with maxsize > 0 that is full it waits for room
QueuePut(st, readings) ==
    LET room == IF st.max <= 0 THEN Len(readings)
                ELSE Min(Len(readings), st.max - Len(st.q))
    IN  [st EXCEPT !.q       = @ \o SubSeq(readings, 1, room),
                   !.pending = SubSeq(readings, room + 1, Len(readings)),
                   !.ctl     = IF room < Len(readings) THEN "blocked"
                               ELSE "continue"]

\* Handle that decodes every body as a sensor report, whatever its command
Handle_AnyCmd(st, payload) ==
    LET called == [st EXCEPT !.handled = Append(@, payload)]
    IN  IF Len(payload) < 2
        THEN [called EXCEPT !.err = "IndexError", !.ctl = "raise"]
        ELSE QueuePut(called, DecodeSensorReport(payload[2],
                                      SubSeq(payload, 3, Len(payload))))

\* _handle(payload), lines 84-87; payload[0] and payload[1] raise IndexError
\* on a body shorter than two bytes
Handle(st, payload) ==
    LET called == [st EXCEPT !.handled = Append(@, payload)]
    IN  IF Len(payload) < 2
        THEN [called EXCEPT !.err = "IndexError", !.ctl = "raise"]
        ELSE LET cmd     == payload[1]
                 node_id == payload[2]
                 rest    == SubSeq(payload, 3, Len(payload))
             IN  IF cmd = CMD_SENSOR
                 THEN QueuePut(called, DecodeSensorReport(node_id, rest))
                 ELSE [called EXCEPT !.ctl = "continue"]

\* RxIter that forgets the buffered bytes of a frame still incomplete
RxIter_DropPartial(st) ==
    IF st.buf[1] # START_BYTE
    THEN [st EXCEPT !.buf = Tail(@), !.ctl = "continue"]
    ELSE LET length == st.buf[2] IN
         IF Len(st.buf) < length + 3
         THEN [st EXCEPT !.buf = <<>>, !.ctl = "return"]
         ELSE LET frame == SubSeq(st.buf, 1, length + 3)
                  rest  == SubSeq(st.buf, length + 4, Len(st.buf))
                  cut   == [st EXCEPT !.buf = rest]
              IN  IF crc8(SubSeq(frame, 2, Len(frame) - 1)) # frame[Len(frame)]
                  THEN [cut EXCEPT !.ctl = "continue"]
                  ELSE Handle(cut, SubSeq(frame, 3, Len(frame) - 1))

\* RxIter that turns a head that is not the start byte into one, in place
RxIter_HeadToStart(st) ==
    IF st.buf[1] # START_BYTE
    THEN [st EXCEPT !.buf = <<START_BYTE>> \o Tail(@), !.ctl = "continue"]
    ELSE LET length == st.buf[2] IN
         IF Len(st.buf) < length + 3
         THEN [st EXCEPT !.ctl = "return"]
         ELSE LET frame == SubSeq(st.buf, 1, length + 3)
                  rest  == SubSeq(st.buf, length + 4, Len(st.buf))
                  cut   == [st EXCEPT !.buf = rest]
              IN  IF crc8(SubSeq(frame, 2, Len(frame) - 1)) # frame[Len(frame)]
                  THEN [cut EXCEPT !.ctl = "continue"]
                  ELSE Handle(cut, SubSeq(frame, 3, Len(frame) - 1))

\* RxIter that empties the buffer when its head is not the start byte
RxIter_ResyncFlush(st) ==
    IF st.buf[1] # START_BYTE
    THEN [st EXCEPT !.buf = <<>>, !.ctl = "continue"]
    ELSE LET length == st.buf[2] IN
         IF Len(st.buf) < length + 3
         THEN [st EXCEPT !.ctl = "return"]
         ELSE LET frame == SubSeq(st.buf, 1, length + 3)
                  rest  == SubSeq(st.buf, length + 4, Len(st.buf))
                  cut   == [st EXCEPT !.buf = rest]
              IN  IF crc8(SubSeq(frame, 2, Len(frame) - 1)) # frame[Len(frame)]
                  THEN [cut EXCEPT !.ctl = "continue"]
                  ELSE Handle(cut, SubSeq(frame, 3, Len(frame) - 1))

\* RxIter that leaves the pass on a checksum mismatch
RxIter_CrcStop(st) ==
    IF st.buf[1] # START_BYTE
    THEN [st EXCEPT !.buf = Tail(@), !.ctl = "continue"]
    ELSE LET length == st.buf[2] IN
         IF Len(st.buf) < length + 3
         THEN [st EXCEPT !.ctl = "return"]
         ELSE LET frame == SubSeq(st.buf, 1, length + 3)
                  rest  == SubSeq(st.buf, length + 4, Len(st.buf))
                  cut   == [st EXCEPT !.buf = rest]
              IN  IF crc8(SubSeq(frame, 2, Len(frame) - 1)) # frame[Len(frame)]
                  THEN [cut EXCEPT !.ctl = "return"]
                  ELSE Handle(cut, SubSeq(frame, 3, Len(frame) - 1))

\* RxIter without the checksum comparison of line 80
RxIter_NoCrc(st) ==
    IF st.buf[1] # START_BYTE
    THEN [st EXCEPT !.buf = Tail(@), !.ctl = "continue"]
    ELSE LET length == st.buf[2] IN
         IF Len(st.buf) < length + 3
         THEN [st EXCEPT !.ctl = "return"]
         ELSE LET frame == SubSeq(st.buf, 1, length + 3)
                  rest  == SubSeq(st.buf, length + 4, Len(st.buf))
                  cut   == [st EXCEPT !.buf = rest]
              IN  Handle(cut, SubSeq(frame, 3, Len(frame) - 1))

\* one iteration of the while loop, lines 73-82, entered with len(buf) >= 5
RxIter(st) ==
    IF st.buf[1] # START_BYTE
    THEN [st EXCEPT !.buf = Tail(@), !.ctl = "continue"]
    ELSE LET length == st.buf[2] IN
         IF Len(st.buf) < length + 3
         THEN [st EXCEPT !.ctl = "return"]
         ELSE LET frame == SubSeq(st.buf, 1, length + 3)
                  rest  == SubSeq(st.buf, length + 4, Len(st.buf))
                  cut   == [st EXCEPT !.buf = rest]
              IN  IF crc8(SubSeq(frame, 2, Len(frame) - 1)) # frame[Len(frame)]
                  THEN [cut EXCEPT !.ctl = "continue"]
                  ELSE Handle(cut, SubSeq(frame, 3, Len(frame) - 1))

\* RxWhile as an if: at most one iteration per pass
RxWhile_Once(st) ==
    IF Len(st.buf) < MIN_BUF THEN st ELSE RxIter(st)

RECURSIVE RxWhile(_)
\* while len(self._buf) >= 5: ...
RxWhile(st) ==
    IF Len(st.buf) < MIN_BUF THEN st
    ELSE LET nx == RxIter(st)
         IN  IF nx.ctl = "continue" THEN RxWhile(nx) ELSE nx

\* _rx_loop once the read has returned chunk, from buffer b and a queue of
\* maxsize mx that holds qq
RxPassMax(b, qq, hd, chunk, mx) ==
    RxWhile([buf |-> b \o chunk, q |-> qq, max |-> mx, pending |-> <<>>,
             handled |-> hd, err |-> "none", ctl |-> "continue"])

\* the same with an unbounded queue
RxPass(b, qq, hd, chunk) == RxPassMax(b, qq, hd, chunk, 0)

-----------------------------------------------------------------------------
(* What the remote side puts on the line *)

\* a frame as _encode_frame builds it (the payload fits in one length byte);
\* tlvs lists the entries <<type, number, raw, age>> a sensor report carries
FrameItem(cmd, node_id, payload) ==
    [kind |-> "frame", cmd |-> cmd, node |-> node_id, payload |-> payload,
     tlvs |-> <<>>, bytes |-> EncodeFrame(cmd, node_id, payload).frame]

\* bytes that belong to no frame
NoiseItem(bytes) ==
    [kind |-> "noise", cmd |-> 0, node |-> 0, payload |-> <<>>,
     tlvs |-> <<>>, bytes |-> bytes]

\* the frame item it with its pos-th wire byte replaced by val
CorruptItem(it, pos, val) ==
    [it EXCEPT !.kind = "corrupt", !.bytes = [@ EXCEPT ![pos] = val]]

\* the wire form of the entry e = <<type, number, raw, age>>
Tlv(e) == <<(e[1] * 16) + e[2], e[3] \div 256, e[3] % 256, e[4]>>

\* the payload of a sensor report: the count, then the entries
SensorPayload(tlvs) ==
    <<Len(tlvs)>> \o Flatten([i \in 1 .. Len(tlvs) |-> Tlv(tlvs[i])])

\* a sensor report of node_id that carries tlvs
ReportItem(node_id, tlvs) ==
    [FrameItem(CMD_SENSOR, node_id, SensorPayload(tlvs)) EXCEPT !.tlvs = tlvs]

RECURSIVE LineOf(_)
LineOf(items) ==
    IF items = <<>> THEN <<>> ELSE Head(items).bytes \o LineOf(Tail(items))

-----------------------------------------------------------------------------
(* send_actuator's callers *)

Senders == {"s1", "s2"}

\* modes = {"ON": 0x01, "OFF": 0x00, "PWM": 0x02}
Modes == {"ON", "OFF", "PWM"}

ModeByte(mode) ==
    CASE mode = "ON"  -> 1
      [] mode = "OFF" -> 0
      [] mode = "PWM" -> 2

NoArg == [node_id |-> 0, act_id |-> 0, mode |-> "", pwm_val |-> 0]

\* the calls drawn in the session specification
SendArgs ==
    [node_id : {5}, act_id : {3}, mode : {"PWM", "DIM"}, pwm_val : {200}]

\* ActuatorFrame with the actuator id masked to a byte instead of a nibble
ActuatorFrame_ActByte(a) ==
    EncodeFrame(CMD_ACTUATOR, a.node_id,
                <<ModeByte(a.mode), And255(a.act_id), And255(a.pwm_val)>>)

\* lines 59-60: the frame send_actuator builds for a valid mode
ActuatorFrame(a) ==
    EncodeFrame(CMD_ACTUATOR, a.node_id,
                <<ModeByte(a.mode), a.act_id % 16, And255(a.pwm_val)>>)

Sat(n) == IF n < ReadCap THEN n + 1 ELSE n

-----------------------------------------------------------------------------
(* State after __init__ (lines 32-38): the items on the line are chosen from  *)
(* streams, the direct call from calls                                      *)

NoCall == [op |-> "none"]

\* maxes: the maxsize of the queue passed to __init__; offers: what the
\* callers of send_actuator will pass
InitAll(streams, calls, maxes, offers) ==
    /\ ser = "None"
    /\ running = FALSE
    /\ buf = <<>>
    /\ q = <<>>
    /\ q_max \in maxes
    /\ pending = <<>>
    /\ pumped = <<>>
    /\ offer \in offers
    /\ sent \in streams
    /\ line = LineOf(sent)
    /\ rx_pc = "open"
    /\ rx_err = "none"
    /\ stop_pc = "idle"
    /\ snd_pc = [s \in Senders |-> "idle"]
    /\ snd_arg = [s \in Senders |-> NoArg]
    /\ snd_frame = [s \in Senders |-> <<>>]
    /\ wire = <<>>
    /\ call \in calls
    /\ handled = <<>>
    /\ reads = 0
    /\ afterStop = 0

\* the session as main.py builds it (main.py:221-222): an unbounded queue
InitWith(streams, calls) == InitAll(streams, calls, {0}, {SendArgs})

rxVars == <<buf, q, pending, line, handled, reads>>
envVars == <<call, sent, q_max, offer, pumped>>
sndVars == <<snd_pc, snd_arg, snd_frame, wire>>

-----------------------------------------------------------------------------
(* start_communication (lines 41-46) and _rx_loop (lines 70-82) *)

\* line 42: _open() returns
RxOpen ==
    /\ rx_pc = "open"
    /\ ser' = "open"
    /\ rx_pc' = "set_running"
    /\ UNCHANGED <<running, rxVars, rx_err, stop_pc, sndVars, envVars, afterStop>>

\* line 42: serial.Serial(...) raises
RxOpenFail ==
    /\ rx_pc = "open"
    /\ rx_pc' = "raised"
    /\ rx_err' = "SerialException"
    /\ UNCHANGED <<ser, running, rxVars, stop_pc, sndVars, envVars, afterStop>>

\* line 43
RxSetRunning ==
    /\ rx_pc = "set_running"
    /\ running' = TRUE
    /\ rx_pc' = "while"
    /\ UNCHANGED <<ser, rxVars, rx_err, stop_pc, sndVars, envVars, afterStop>>

\* line 45, while self._running: with the flag set _rx_loop is entered and
\* self._ser.read(64) called, otherwise start_communication returns
RxLoopTest ==
    /\ rx_pc = "while"
    /\ rx_pc' = IF running THEN "read" ELSE "returned"
    /\ afterStop' = IF running /\ stop_pc = "done" THEN Sat(afterStop) ELSE afterStop
    /\ UNCHANGED <<ser, running, rxVars, rx_err, stop_pc, sndVars, envVars>>

\* lines 71-82: the read returns n bytes and the pass runs to its end
RxRead(n) ==
    /\ rx_pc = "read"
    /\ ser = "open"
    /\ \E st \in {RxPassMax(buf, q, handled, SubSeq(line, 1, n), q_max)} :
           /\ buf' = st.buf
           /\ q' = st.q
           /\ pending' = st.pending
           /\ handled' = st.handled
           /\ rx_err' = st.err
           /\ rx_pc' = CASE st.err # "none"      -> "raised"
                          [] st.ctl = "blocked"   -> "put"
                          [] OTHER                -> "while"
    /\ line' = SubSeq(line, n + 1, Len(line))
    /\ reads' = IF n > 0 THEN Sat(reads) ELSE reads
    /\ UNCHANGED <<ser, running, stop_pc, sndVars, envVars, afterStop>>

\* line 102: the queue has room again, the put that was waiting returns and
\* the pass runs on, to its end or to the next put on a full queue
RxPut ==
    /\ rx_pc = "put"
    /\ Len(q) < q_max
    /\ \E st \in {LET put == QueuePut([buf |-> buf, q |-> q, max |-> q_max,
                                        pending |-> <<>>, handled |-> handled,
                                        err |-> "none", ctl |-> "continue"],
                                       pending)
                   IN  IF put.ctl = "blocked" THEN put ELSE RxWhile(put)} :
           /\ buf' = st.buf
           /\ q' = st.q
           /\ pending' = st.pending
           /\ handled' = st.handled
           /\ rx_err' = st.err
           /\ rx_pc' = CASE st.err # "none"      -> "raised"
                          [] st.ctl = "blocked"   -> "put"
                          [] OTHER                -> "while"
    /\ UNCHANGED <<ser, running, line, reads, stop_pc, sndVars, envVars,
                   afterStop>>

\* the keys of self.sensors, the registry of the GUI (main.py:232-244)
SensorKeys ==
    {"TEMP_01", "TEMP_02", "TEMP_03", "HUM_01", "HUM_02", "HUM_03", "PRESS_01"}

\* one turn of the loop of _pump_queue (main.py:319-329): get_nowait() takes
\* the oldest reading, which is recorded if its sensor_id is a key of
\* self.sensors and discarded otherwise
Consume ==
    /\ q # <<>>
    /\ q' = Tail(q)
    /\ pumped' = Append(pumped, [reading |-> Head(q),
                                 kept |-> Head(q).sensor_id \in SensorKeys])
    /\ UNCHANGED <<ser, running, buf, pending, line, handled, reads, rx_pc,
                   rx_err, stop_pc, sndVars, call, sent, q_max, offer,
                   afterStop>>

\* RxReadFail that records the failure and goes on with the loop
RxReadFail_Retry ==
    /\ rx_pc = "read"
    /\ ser \in {"open", "closed"}
    /\ rx_pc' = "while"
    /\ rx_err' = IF ser = "closed" THEN "PortNotOpenError" ELSE "SerialException"
    /\ UNCHANGED <<ser, running, rxVars, stop_pc, sndVars, envVars, afterStop>>

\* line 71: the read raises, on a closed port or on a transport failure
RxReadFail ==
    /\ rx_pc = "read"
    /\ ser \in {"open", "closed"}
    /\ rx_pc' = "raised"
    /\ rx_err' = IF ser = "closed" THEN "PortNotOpenError" ELSE "SerialException"
    /\ UNCHANGED <<ser, running, rxVars, stop_pc, sndVars, envVars, afterStop>>

-----------------------------------------------------------------------------
(* stop (lines 48-51) *)

\* line 49
StopFlag ==
    /\ stop_pc = "idle"
    /\ running' = FALSE
    /\ stop_pc' = "close"
    /\ UNCHANGED <<ser, rxVars, rx_pc, rx_err, sndVars, envVars, afterStop>>

\* lines 50-51
StopClose ==
    /\ stop_pc = "close"
    /\ ser' = IF ser = "None" THEN ser ELSE "closed"
    /\ stop_pc' = "done"
    /\ UNCHANGED <<running, rxVars, rx_pc, rx_err, sndVars, envVars, afterStop>>

-----------------------------------------------------------------------------
(* send_actuator (lines 54-63) *)

\* a context calls send_actuator(node_id, act_id, mode, pwm_val)
SendCall(s) ==
    /\ snd_pc[s] = "idle"
    /\ \E a \in offer : snd_arg' = [snd_arg EXCEPT ![s] = a]
    /\ snd_pc' = [snd_pc EXCEPT ![s] = "check"]
    /\ UNCHANGED <<ser, running, rxVars, rx_pc, rx_err, stop_pc, snd_frame,
                   wire, envVars, afterStop>>

\* SendCheck without the check of line 58: an unknown mode is sent as OFF
SendCheck_NoValidate(s) ==
    /\ snd_pc[s] = "check"
    /\ snd_frame' = [snd_frame EXCEPT ![s] =
            IF snd_arg[s].mode \in Modes
            THEN ActuatorFrame(snd_arg[s]).frame
            ELSE ActuatorFrame([snd_arg[s] EXCEPT !.mode = "OFF"]).frame]
    /\ snd_pc' = [snd_pc EXCEPT ![s] = "write"]
    /\ UNCHANGED <<ser, running, rxVars, rx_pc, rx_err, stop_pc, snd_arg,
                   wire, envVars, afterStop>>

\* lines 57-60: the mode check, then payload and frame
SendCheck(s) ==
    /\ snd_pc[s] = "check"
    /\ IF snd_arg[s].mode \notin Modes
       THEN /\ snd_pc' = [snd_pc EXCEPT ![s] = "ValueError"]
            /\ UNCHANGED snd_frame
       ELSE /\ snd_frame' = [snd_frame EXCEPT ![s] = ActuatorFrame(snd_arg[s]).frame]
            /\ snd_pc' = [snd_pc EXCEPT ![s] = "write"]
    /\ UNCHANGED <<ser, running, rxVars, rx_pc, rx_err, stop_pc, snd_arg,
                   wire, envVars, afterStop>>

\* line 61: self._ser.write(frame) is entered
SendWrite(s) ==
    /\ snd_pc[s] = "write"
    /\ CASE ser = "None"   -> /\ snd_pc' = [snd_pc EXCEPT ![s] = "AttributeError"]
                              /\ UNCHANGED wire
         [] ser = "closed" -> /\ snd_pc' = [snd_pc EXCEPT ![s] = "PortNotOpenError"]
                              /\ UNCHANGED wire
         [] ser = "open"   -> /\ snd_pc' = [snd_pc EXCEPT ![s] = "in_write"]
                              /\ wire' = Append(wire, <<s, snd_frame[s]>>)
    /\ UNCHANGED <<ser, running, rxVars, rx_pc, rx_err, stop_pc, snd_arg,
                   snd_frame, envVars, afterStop>>

\* SendFlush that goes to the settle wait without calling flush
SendFlush_Skip(s) ==
    /\ snd_pc[s] = "in_write"
    /\ snd_pc' = [snd_pc EXCEPT ![s] = "sleep"]
    /\ UNCHANGED <<ser, running, rxVars, rx_pc, rx_err, stop_pc, snd_arg,
                   snd_frame, wire, envVars, afterStop>>

\* line 62: write has returned, self._ser.flush() is entered
SendFlush(s) ==
    /\ snd_pc[s] = "in_write"
    /\ snd_pc' = [snd_pc EXCEPT ![s] =
                     IF ser = "open" THEN "in_flush" ELSE "PortNotOpenError"]
    /\ UNCHANGED <<ser, running, rxVars, rx_pc, rx_err, stop_pc, snd_arg,
                   snd_frame, wire, envVars, afterStop>>

\* line 63: flush has returned, time.sleep(ACK_TIMEOUT_S)
SendSettle(s) ==
    /\ snd_pc[s] = "in_flush"
    /\ snd_pc' = [snd_pc EXCEPT ![s] = "sleep"]
    /\ UNCHANGED <<ser, running, rxVars, rx_pc, rx_err, stop_pc, snd_arg,
                   snd_frame, wire, envVars, afterStop>>

\* send_actuator returns
SendReturn(s) ==
    /\ snd_pc[s] = "sleep"
    /\ snd_pc' = [snd_pc EXCEPT ![s] = "returned"]
    /\ UNCHANGED <<ser, running, rxVars, rx_pc, rx_err, stop_pc, snd_arg,
                   snd_frame, wire, envVars, afterStop>>

-----------------------------------------------------------------------------
(* Specifications *)

\* the receive thread alone
NextRx ==
    \/ RxOpen
    \/ RxOpenFail
    \/ RxSetRunning
    \/ RxLoopTest
    \/ \E n \in 0 .. Min(READ_MAX, Len(line)) : RxRead(n)
    \/ RxReadFail

\* the receive thread, a caller of stop and the callers of send_actuator
Next ==
    \/ NextRx
    \/ StopFlag
    \/ StopClose
    \/ \E s \in Senders :
          \/ SendCall(s)
          \/ SendCheck(s)
          \/ SendWrite(s)
          \/ SendFlush(s)
          \/ SendSettle(s)
          \/ SendReturn(s)

\* a sensor report of node 2: TEMP number 1, 23.5
ReportT == ReportItem(2, <<<<0, 1, 235, 0>>>>)

SessionStreams == {<<ReportT>>}

Init == InitWith(SessionStreams, {NoCall})

Spec == Init /\ [][Next]_vars

-----------------------------------------------------------------------------
(* Inputs drawn for the receive thread *)

\* payload bytes drawn for short payloads
PayBytes == {0, START_BYTE, 167}

\* every sequence over S of length 0 .. n
SeqsUpTo(S, n) == UNION {[1 .. k -> S] : k \in 0 .. n}

\* the longest payload whose body fits in one length byte
MaxFit == (ByteMod - 1) - 2

\* the frames of the round trip: short payloads, and the longest one
RoundTripFrames ==
    {FrameItem(c, nd, p) :
        c \in {CMD_SENSOR, CMD_ACTUATOR, START_BYTE},
        nd \in {0, START_BYTE},
        p \in SeqsUpTo(PayBytes, MaxPay)}
    \cup {FrameItem(CMD_ACTUATOR, 2, Fill(MaxFit, 167))}

InitRoundTrip == InitWith({<<f>> : f \in RoundTripFrames}, {NoCall})

SpecRoundTrip == InitRoundTrip /\ [][NextRx]_vars

\* the body cmd || node_id || payload of a frame item
BodyOf(it) == <<it.cmd, it.node>> \o it.payload

\* C1: the bytes of _encode_frame(cmd, node_id, payload), fed to the empty
\* buffer, are handed to _handle as exactly cmd || node_id || payload once the
\* last byte has been read, nothing is handed over before, no pass raises, and
\* the buffer is left empty.
C1_RoundTrip ==
    /\ rx_err # "IndexError"
    /\ line # <<>> => handled = <<>>
    /\ line = <<>> => handled = <<BodyOf(sent[1])>> /\ buf = <<>>

\* the longest frame has gone through
C1_Witness ==
    /\ line = <<>>
    /\ Len(sent[1].payload) = MaxFit
    /\ handled = <<BodyOf(sent[1])>>
    /\ buf = <<>>

-----------------------------------------------------------------------------
(* A direct call of the static method _encode_frame *)

\* payloads longer than MaxFit are drawn up to this many bytes beyond it
MaxOver == 2

EncodeCalls ==
    [op : {"encode"}, pc : {"call"},
     cmd : {CMD_SENSOR, CMD_ACTUATOR, ByteMod + CMD_ACTUATOR},
     node_id : {2, START_BYTE, ByteMod + 5},
     payload : {Fill(k, b) : k \in (0 .. MaxPay) \cup (MaxFit .. MaxFit + MaxOver),
                             b \in {0, START_BYTE}},
     out : {[err |-> "none", frame |-> <<>>]}]

\* _encode_frame(cmd, node_id, payload) runs and returns or raises
EncodeCall ==
    /\ call.op = "encode"
    /\ call.pc = "call"
    /\ call' = [call EXCEPT !.pc = "done",
                            !.out = EncodeFrame(call.cmd, call.node_id, call.payload)]
    /\ UNCHANGED <<ser, running, rxVars, rx_pc, rx_err, stop_pc, sndVars, sent,
                   q_max, offer, pumped, afterStop>>

InitEncode == InitWith({<<>>}, EncodeCalls)

SpecEncode == InitEncode /\ [][EncodeCall]_vars

\* C9: for a payload with len(payload) + 2 > 255 _encode_frame raises and
\* returns no bytes; whenever it returns a frame, the length byte is the true
\* number of body bytes, never that number reduced modulo 256.
C9_EncodeFailsFast ==
    (call.op = "encode" /\ call.pc = "done") =>
        /\ Len(call.payload) + 2 > 255 =>
              call.out.err = "ValueError" /\ call.out.frame = <<>>
        /\ call.out.frame # <<>> => call.out.frame[2] = Len(call.payload) + 2

\* a payload one byte too long has been refused
C9_Witness ==
    /\ call.op = "encode"
    /\ call.pc = "done"
    /\ Len(call.payload) = MaxFit + 1
    /\ call.out.err = "ValueError"

-----------------------------------------------------------------------------
(* Sensor reports on the line, and the readings they stand for *)

\* the reading the entry e = <<type, number, raw, age>> of a report of node_id
\* stands for
ReadingOf(node_id, e) ==
    [sensor_id |-> TypeName(e[1]) \o "_" \o Fmt02d(node_id) \o "_" \o Dec(e[2]),
     value     |-> Tenths(e[3])]

\* the readings of an item: those of its entries, in entry order, for a
\* sensor report and none for anything else
ReadingsOf(it) ==
    IF it.kind = "frame" /\ it.cmd = CMD_SENSOR
    THEN [i \in 1 .. Len(it.tlvs) |-> ReadingOf(it.node, it.tlvs[i])]
    ELSE <<>>

RECURSIVE ReadingsOfAll(_)
ReadingsOfAll(items) ==
    IF items = <<>> THEN <<>>
    ELSE ReadingsOf(Head(items)) \o ReadingsOfAll(Tail(items))

\* the bodies of the well-formed frames among items, in order
RECURSIVE BodiesOf(_)
BodiesOf(items) ==
    IF items = <<>> THEN <<>>
    ELSE (IF Head(items).kind = "frame" THEN <<BodyOf(Head(items))>> ELSE <<>>)
            \o BodiesOf(Tail(items))

IsPrefix(a, b) == Len(a) <= Len(b) /\ a = SubSeq(b, 1, Len(a))

\* a sensor report of node 3: HUM number 0, 45.6
ReportH == ReportItem(3, <<<<1, 0, 456, 9>>>>)

\* an actuator command as send_actuator frames it: node 5, PWM, actuator 3, 200
CommandA == FrameItem(CMD_ACTUATOR, 5, <<2, 3, 200>>)

-----------------------------------------------------------------------------
(* One corrupted sensor report, followed by valid frames *)

\* the wire positions of the payload bytes and of the checksum byte of it
PayloadOrCrcPos(it) == 5 .. Len(it.bytes)

\* ReportT with one of those bytes changed to any other value
CorruptedReports ==
    UNION {{CorruptItem(ReportT, pos, val) : val \in Byte \ {ReportT.bytes[pos]}} :
              pos \in PayloadOrCrcPos(ReportT)}

CorruptStreams ==
    {<<c, ReportH>> : c \in CorruptedReports}
    \cup {<<CorruptItem(ReportT, pos, (ReportT.bytes[pos] + 1) % ByteMod),
            CommandA, ReportH>> : pos \in PayloadOrCrcPos(ReportT)}

InitCorrupt == InitWith(CorruptStreams, {NoCall})

SpecCorrupt == InitCorrupt /\ [][NextRx]_vars

\* C2: with one payload byte or the checksum byte of a sensor report changed
\* to any other value, no pass raises, no reading of the corrupted report is
\* ever pushed (the queue holds only readings of the valid frames after it),
\* and once the stream is read every valid frame after it has been handed over
\* and its readings pushed.
C2_CorruptionDropped ==
    /\ rx_err # "IndexError"
    /\ IsPrefix(q, ReadingsOfAll(Tail(sent)))
    /\ line = <<>> =>
          /\ q = ReadingsOfAll(Tail(sent))
          /\ handled = BodiesOf(Tail(sent))
          /\ buf = <<>>

\* a report with a corrupted byte was dropped and the report after it decoded
C2_Witness ==
    /\ line = <<>>
    /\ sent[1].kind = "corrupt"
    /\ sent[1].bytes[Len(sent[1].bytes)] = ReportT.bytes[Len(ReportT.bytes)]
    /\ q = ReadingsOf(ReportH)
    /\ handled = <<BodyOf(ReportH)>>

-----------------------------------------------------------------------------
(* Valid frames back to back *)

\* most frames in a stream of valid frames
MaxFrames == 2

\* the i-th entry drawn for generated reports: <<type, number, raw, age>>
Entry(i) == <<i % 4, i, (100 * i) + 35, i>>

\* a frame of another command whose payload has the layout of a report
CommandB == FrameItem(CMD_ACTUATOR, 2, SensorPayload(<<Entry(1)>>))

ValidFrames ==
    {ReportItem(2, [i \in 1 .. k |-> Entry(i)]) : k \in 0 .. MaxTlv}
    \cup {CommandA, CommandB}

FrameStreams == SeqsUpTo(ValidFrames, MaxFrames) \ {<<>>}

InitFrames == InitWith(FrameStreams, {NoCall})

SpecFrames == InitFrames /\ [][NextRx]_vars

\* feeding all the bytes of items to the empty buffer in one pass
FedWhole(items) == RxPass(<<>>, <<>>, <<>>, LineOf(items))

\* C7: one valid frame that arrived in exactly two non-empty reads, cut at any
\* byte boundary, has pushed the same readings in the same order as the frame
\* fed in a single pass, and the buffer is empty.
C7_SplitInTwo ==
    (Len(sent) = 1 /\ line = <<>> /\ reads = 2) =>
        /\ q = FedWhole(sent).q
        /\ buf = <<>>
        /\ rx_err # "IndexError"

\* a report with entries came in two reads, the cut inside its payload
C7_Witness ==
    /\ Len(sent) = 1
    /\ line = <<>>
    /\ reads = 2
    /\ Len(q) = MaxTlv
    /\ q = ReadingsOf(sent[1])

\* C8: the concatenation of valid frames, taken in one read, pushes exactly
\* the readings of the sensor reports among them, in frame order and entry
\* order; the other frames push nothing and every frame is handed over.
C8_ConcatenatedFrames ==
    (line = <<>> /\ reads = 1) =>
        /\ q = ReadingsOfAll(sent)
        /\ handled = BodiesOf(sent)
        /\ buf = <<>>
        /\ rx_err # "IndexError"

\* an actuator command followed by a sensor report with entries, in one read
C8_Witness ==
    /\ line = <<>>
    /\ reads = 1
    /\ Len(sent) = MaxFrames
    /\ sent[1] = CommandA
    /\ sent[2].cmd = CMD_SENSOR
    /\ q = ReadingsOf(sent[2])
    /\ Len(q) = MaxTlv

-----------------------------------------------------------------------------
(* Noise and frames *)

\* longest run of noise bytes in one item
MaxNoise == 2

NoiseBytes == {0, 2, START_BYTE}

NoiseItems == {NoiseItem(b) : b \in SeqsUpTo(NoiseBytes, MaxNoise) \ {<<>>}}

NoiseStreams == SeqsUpTo(NoiseItems \cup {ReportT, CommandA}, 2) \ {<<>>}

InitNoise == InitWith(NoiseStreams, {NoCall})

SpecNoise == InitNoise /\ [][NextRx]_vars

\* C5 as claimed: after every pass the buffer is empty or the proper prefix of
\* an incomplete frame, that is, it starts with 0x55 and holds fewer than
\* length + 3 bytes.
C5_EmptyOrFramePrefix ==
    rx_err # "IndexError" =>
        \/ buf = <<>>
        \/ /\ buf[1] = START_BYTE
           /\ Len(buf) >= 2 => Len(buf) < buf[2] + 3

\* C5 as amended: after every pass the buffer holds fewer than 5 bytes, or it
\* starts with 0x55 and holds fewer than length + 3 bytes.
C5_ShortOrFramePrefix ==
    rx_err # "IndexError" =>
        \/ Len(buf) < MIN_BUF
        \/ /\ buf[1] = START_BYTE
           /\ Len(buf) < buf[2] + 3

\* a pass has ended with bytes in the buffer that start no frame
C5_Witness ==
    /\ rx_pc = "while"
    /\ reads > 0
    /\ buf # <<>>
    /\ buf[1] # START_BYTE

\* C6: once the stream is read and the buffer is too short to hold a frame,
\* every well-formed frame of the stream has been handed to _handle.
C6_NoFrameLost ==
    (line = <<>> /\ rx_err = "none" /\ Len(buf) < MIN_BUF) =>
        \A i \in 1 .. Len(sent) :
            sent[i].kind = "frame" =>
                \E j \in 1 .. Len(handled) : handled[j] = BodyOf(sent[i])

-----------------------------------------------------------------------------
(* The session: receive thread, stop and send_actuator together *)

InRead == rx_pc = "read"
InWrite(s) == snd_pc[s] \in {"in_write", "in_flush"}

\* C3: the receive loop is never inside a transport read while a caller of
\* send_actuator is inside write or flush, and no two callers of send_actuator
\* are inside write or flush together.
C3_TransportSerialized ==
    /\ ~(InRead /\ \E s \in Senders : InWrite(s))
    /\ \A s, t \in Senders : (InWrite(s) /\ InWrite(t)) => s = t

\* C4: once stop() has returned, the receive loop enters at most one more
\* pass.
C4_StopEndsLoop == stop_pc = "done" => afterStop <= 1

\* C10: a call of send_actuator whose mode is not ON, OFF or PWM only ever
\* raises ValueError: it builds no frame and gives nothing to the transport,
\* and the step that raises leaves transport, buffer and queue as they were.
C10_InvalidModeState ==
    \A s \in Senders :
        (snd_pc[s] # "idle" /\ snd_arg[s].mode \notin Modes) =>
            /\ snd_pc[s] \in {"check", "ValueError"}
            /\ snd_frame[s] = <<>>
            /\ \A i \in 1 .. Len(wire) : wire[i][1] # s

C10_InvalidModeStep ==
    \A s \in Senders :
        (snd_pc[s] = "check" /\ snd_pc'[s] = "ValueError") =>
            UNCHANGED <<ser, wire, buf, q, line>>

\* C10: send_actuator with a mode outside ON, OFF, PWM fails with ValueError
\* before any frame byte is produced and before any write or flush, in every
\* state and at every step of every behaviour.
C10_InvalidModeFailsFast ==
    []C10_InvalidModeState /\ [][C10_InvalidModeStep]_vars

\* a call with an invalid mode has raised ValueError while the port is open
C10_Witness ==
    /\ ser = "open"
    /\ \E s \in Senders : snd_pc[s] = "ValueError"

-----------------------------------------------------------------------------
(* A session constructed with a bounded queue, and a consumer *)

\* largest maxsize drawn for the queue
MaxQueue == 2

\* the receive thread and the consumer of the queue
NextQueue ==
    \/ NextRx
    \/ RxPut
    \/ Consume

InitQueue == InitAll(FrameStreams, {NoCall}, 0 .. MaxQueue, {SendArgs})

SpecQueue == InitQueue /\ [][NextQueue]_vars

\* C11: the receive loop is never waiting inside a put on the consumer queue,
\* whatever queue the session was constructed with and however slowly the
\* consumer takes the readings.
C11_PutNeverBlocks == rx_pc # "put"

-----------------------------------------------------------------------------
(* A direct call of _decode_sensor_report(node_id, data) *)

\* most bytes after the count byte in a drawn payload
MaxData == 10
\* largest small count byte drawn
MaxCount == 3

\* the bytes of the entries Entry(1), Entry(2), ... one after the other
EntryBytes == Flatten([i \in 1 .. MaxCount |-> Tlv(Entry(i))])

\* payloads whose count byte and length do not agree, and the empty payload
TruncatedData ==
    {<<c>> \o SubSeq(EntryBytes, 1, n) :
        c \in (0 .. MaxCount) \cup {ByteMod - 1}, n \in 0 .. MaxData}
    \cup {<<>>}

\* payloads of one entry: every type code, with numbers, values and ages
OneEntryData ==
    {SensorPayload(<<<<t, num, raw, age>>>>) :
        t \in 0 .. 15, num \in {0, 1, 15}, raw \in {0, 235, 65535},
        age \in {0, 255}}

DecodeCalls ==
    [op : {"decode"}, pc : {"call"}, node_id : {2}, data : TruncatedData]
    \cup [op : {"decode"}, pc : {"call"}, node_id : {0, 2, 10, 100, 255},
          data : OneEntryData]

\* _decode_sensor_report(node_id, data) runs to its end, on the unbounded
\* queue of the session
DecodeCall ==
    /\ call.op = "decode"
    /\ call.pc = "call"
    /\ q_max = 0
    /\ call' = [call EXCEPT !.pc = "done"]
    /\ q' = q \o DecodeSensorReport(call.node_id, call.data)
    /\ UNCHANGED <<ser, running, buf, pending, line, handled, reads, rx_pc,
                   rx_err, stop_pc, sndVars, sent, q_max, offer, pumped,
                   afterStop>>

InitDecode == InitWith({<<>>}, DecodeCalls)

SpecDecode == InitDecode /\ [][DecodeCall]_vars

\* C12: for a payload with count byte c followed by n bytes the decoder
\* returns having pushed exactly min(c, n div 4) readings, those of the first
\* complete 4-byte entries in order; for the empty payload it pushes nothing.
C12_DecodesWhatFits ==
    (call.op = "decode" /\ call.pc = "done") =>
        IF call.data = <<>> THEN q = <<>>
        ELSE LET c == call.data[1]
                 n == Len(call.data) - 1
                 k == Min(c, n \div 4)
             IN  /\ Len(q) = k
                 /\ \A i \in 1 .. k :
                       q[i] = DecodeEntry(call.node_id, call.data, 1 + (4 * (i - 1)))

\* a count of 3 with two complete entries and a partial third: two readings
C12_Witness ==
    /\ call.op = "decode"
    /\ call.pc = "done"
    /\ call.data # <<>>
    /\ call.data[1] = MaxCount
    /\ Len(call.data) = 1 + MaxData
    /\ Len(q) = 2

\* C15: every reading pushed for an entry [type_and_number, value_hi,
\* value_lo, age] of a report of node n has the value (value_hi * 256 +
\* value_lo) / 10 and the sensor_id made of the type name (TEMP, HUM, PRESS
\* for the codes 0, 1, 2, GEN for 3..15), the node id in at least two decimal
\* digits and the low nibble; the age byte plays no part.  Node 2, type 0,
\* number 1, raw 235 gives TEMP_02_1 and 23.5.
C15_ReadingOfEntry ==
    (call.op = "decode" /\ call.pc = "done") =>
        /\ \A i \in 1 .. Len(q) :
              LET t_s  == call.data[2 + (4 * (i - 1))]
                  hi   == call.data[3 + (4 * (i - 1))]
                  lo   == call.data[4 + (4 * (i - 1))]
                  code == t_s \div 16
                  name == IF code = 0 THEN "TEMP"
                          ELSE IF code = 1 THEN "HUM"
                          ELSE IF code = 2 THEN "PRESS"
                          ELSE "GEN"
                  raw  == (hi * 256) + lo
              IN  /\ q[i].sensor_id =
                        name \o "_" \o Fmt02d(call.node_id) \o "_" \o Dec(t_s % 16)
                  /\ q[i].value = <<raw \div 10, raw % 10>>
        /\ (call.node_id = 2 /\ Len(call.data) = 5
                /\ SubSeq(call.data, 1, 4) = <<1, 1, 0, 235>>) =>
              q = <<[sensor_id |-> "TEMP_02_1", value |-> <<23, 5>>]>>

\* an entry of type code 15 of node 100, with a non-zero age, was decoded
C15_Witness ==
    /\ call.op = "decode"
    /\ call.pc = "done"
    /\ call.node_id = 100
    /\ Len(call.data) = 5
    /\ call.data[5] = 255
    /\ q = <<[sensor_id |-> "GEN_100_15", value |-> <<6553, 5>>]>>

-----------------------------------------------------------------------------
(* Failures of the transport in the receive thread *)

TransportErrors == {"SerialException", "PortNotOpenError"}

\* an exception has left start_communication exactly when it has been raised
C13_FailureState ==
    /\ rx_err # "none" <=> rx_pc = "raised"
    /\ (rx_pc = "raised" /\ ser = "None") => rx_err = "SerialException"

\* once raised, the receive thread takes no further step: no read, no byte
\* taken from the line
C13_FailureStep ==
    rx_pc = "raised" =>
        /\ rx_pc' = "raised"
        /\ UNCHANGED <<rx_err, buf, q, line, handled, reads>>

\* C13: when opening the transport or a read raises, the exception leaves
\* start_communication and the receive loop is over: no transport read is
\* attempted after the failure.
C13_FailureEndsLoop ==
    []C13_FailureState /\ [][C13_FailureStep]_vars

\* a read has raised on the open port while bytes were still to be read
C13_Witness ==
    /\ rx_pc = "raised"
    /\ rx_err \in TransportErrors
    /\ ser = "open"
    /\ line # <<>>

-----------------------------------------------------------------------------
(* Callers of send_actuator with arguments of any size and sign *)

\* integers inside and outside the ranges of the fields
WideNodes == {5, ByteMod + 5, -1}
WideActs == {3, 16 + 3, -1}
WidePwms == {200, ByteMod + 200, -56}

WideArgs == [node_id : WideNodes, act_id : WideActs, mode : Modes,
             pwm_val : WidePwms]

\* the port is opened, and the callers call
NextSend ==
    \/ RxOpen
    \/ \E s \in Senders :
          \/ SendCall(s)
          \/ SendCheck(s)
          \/ SendWrite(s)
          \/ SendFlush(s)
          \/ SendSettle(s)
          \/ SendReturn(s)

InitSend == InitAll({<<>>}, {NoCall}, {0}, {{a} : a \in WideArgs})

SpecSend == InitSend /\ [][NextSend]_vars

\* C14: every frame send_actuator has written for a valid mode and integers
\* act_id, pwm_val, node_id is 0x55, 5, 0x20, node_id mod 256, mode byte,
\* act_id mod 16, pwm_val mod 256, checksum, with ON -> 1, OFF -> 0, PWM -> 2;
\* mode PWM, act_id 3, pwm_val 200, node 5 gives the payload 02 03 C8.
C14_ActuatorFrame ==
    \A i \in 1 .. Len(wire) :
        LET a == snd_arg[wire[i][1]]
            f == wire[i][2]
            mode_byte == IF a.mode = "ON" THEN 1
                         ELSE IF a.mode = "OFF" THEN 0 ELSE 2
        IN  /\ a.mode \in {"ON", "OFF", "PWM"}
            /\ Len(f) = 8
            /\ f[1] = 85 /\ f[2] = 5
            /\ f[3] = 32
            /\ f[4] = a.node_id % 256
            /\ SubSeq(f, 5, 7) = <<mode_byte, a.act_id % 16, a.pwm_val % 256>>
            /\ (a = [node_id |-> 5, act_id |-> 3, mode |-> "PWM", pwm_val |-> 200])
                  => f = <<85, 5, 32, 5, 2, 3, 200, 8>>

\* a frame was written for a node id, an actuator id and a value out of range
C14_Witness ==
    \E i \in 1 .. Len(wire) :
        /\ snd_arg[wire[i][1]] =
              [node_id |-> -1, act_id |-> 16 + 3, mode |-> "ON", pwm_val |-> -56]
        /\ wire[i][2][4] = 255
        /\ SubSeq(wire[i][2], 5, 7) = <<1, 3, 200>>

-----------------------------------------------------------------------------
(* The steps of send_actuator *)

\* the moves of a call of send_actuator: <<from, to>>
SendOrder ==
    {<<"idle", "check">>, <<"check", "write">>, <<"write", "in_write">>,
     <<"in_write", "in_flush">>, <<"in_flush", "sleep">>,
     <<"sleep", "returned">>,
     <<"check", "ValueError">>, <<"write", "AttributeError">>,
     <<"write", "PortNotOpenError">>, <<"in_write", "PortNotOpenError">>}

\* the frames the transport was given by the caller s
WrittenBy(s) == {i \in 1 .. Len(wire) : wire[i][1] = s}

\* a call that got past write has given the transport its whole frame, once
C16_SendState ==
    \A s \in Senders :
        /\ Cardinality(WrittenBy(s)) <= 1
        /\ snd_pc[s] \in {"in_write", "in_flush", "sleep", "returned"} =>
              \E i \in WrittenBy(s) :
                  /\ wire[i][2] = snd_frame[s]
                  /\ Len(wire[i][2]) = wire[i][2][2] + 3

\* a step of a call follows the order, is a write only when it enters write,
\* takes nothing from the line and leaves buffer and queue alone
C16_SendStep ==
    \A s \in Senders :
        snd_pc'[s] # snd_pc[s] =>
            /\ <<snd_pc[s], snd_pc'[s]>> \in SendOrder
            /\ UNCHANGED <<buf, q, pending, line, handled>>
            /\ wire' # wire => snd_pc'[s] = "in_write"

\* C16: send_actuator does write(frame), flush, settle wait, return in this
\* order, gives the whole frame to a single write, never reads from the
\* transport and leaves the reassembly buffer and the queue unchanged.
C16_SendOrder ==
    []C16_SendState /\ [][C16_SendStep]_vars

\* a call has returned after its frame was written, the receive thread being
\* inside a read
C16_Witness ==
    /\ rx_pc = "read"
    /\ \E s \in Senders :
          /\ snd_pc[s] = "returned"
          /\ WrittenBy(s) # {}

-----------------------------------------------------------------------------
(* The layout of an encoded frame *)

\* C17: a frame returned by _encode_frame starts with 0x55, its length byte
\* is 2 + len(payload), the number of body bytes, its total length is
\* length + 3, its body is cmd, node_id, payload and its last byte is crc8
\* over the length byte followed by the body.
C17_FrameLayout ==
    (call.op = "encode" /\ call.pc = "done" /\ call.out.err = "none") =>
        LET f == call.out.frame IN
        /\ Len(f) >= 5
        /\ f[1] = 85
        /\ f[2] = 2 + Len(call.payload)
        /\ Len(f) = f[2] + 3
        /\ SubSeq(f, 3, Len(f) - 1) =
              <<call.cmd % 256, call.node_id % 256>> \o call.payload
        /\ f[Len(f)] = crc8(SubSeq(f, 2, Len(f) - 1))
        /\ (call.cmd = 1 /\ call.node_id = 2 /\ call.payload = <<>>)
              => f = <<85, 2, 1, 2, 26>>
        /\ (call.cmd = 288 /\ call.node_id = 261 /\ call.payload = <<85, 85>>)
              => f = <<85, 4, 32, 5, 85, 85, 27>>

\* the longest frame has been encoded
C17_Witness ==
    /\ call.op = "encode"
    /\ call.pc = "done"
    /\ call.out.err = "none"
    /\ Len(call.payload) = MaxFit
    /\ Len(call.out.frame) = ByteMod + 2

-----------------------------------------------------------------------------
(* A direct call of crc8(data, poly, init) *)

\* longest data drawn from CrcBytes
MaxCrcLen == 3

CrcBytes == {0, 1, 128, 255}

\* b"123456789"
Digits19 == [i \in 1 .. 9 |-> 48 + i]

CrcCalls ==
    [op : {"crc8"}, pc : {"call"},
     data : SeqsUpTo(CrcBytes, MaxCrcLen) \cup {Digits19},
     poly : {CRC_POLY, 7, ByteMod + CRC_POLY},
     init : {0, 1, ByteMod - 1},
     out : {0}]

\* crc8(data, poly, init) runs and returns
CrcCall ==
    /\ call.op = "crc8"
    /\ call.pc = "call"
    /\ call' = [call EXCEPT !.pc = "done",
                            !.out = crc8p(call.data, call.poly, call.init)]
    /\ UNCHANGED <<ser, running, rxVars, rx_pc, rx_err, stop_pc, sndVars, sent,
                   q_max, offer, pumped, afterStop>>

InitCrc == InitWith({<<>>}, CrcCalls)

SpecCrc == InitCrc /\ [][CrcCall]_vars

\* C18: crc8 returns for every byte sequence, the empty one included, a
\* value in 0..255 that its arguments determine (the known values below),
\* the initial register value for the empty sequence, hence 0 for crc8(b"")
\* with the default init, and it changes nothing else.
C18_CrcPureTotal ==
    (call.op = "crc8" /\ call.pc = "done") =>
        /\ call.out \in 0 .. 255
        /\ call.data = <<>> => call.out = call.init
        /\ (call.data = <<>> /\ call.init = 0) => call.out = 0
        /\ (call.poly = 49 /\ call.init = 0) =>
              /\ call.data = Digits19 => call.out = 162
              /\ call.data = <<1>> => call.out = 49
              /\ call.data = <<255, 0>> => call.out = 129
        /\ (call.poly = 305 /\ call.init = 0 /\ call.data = <<1>>) => call.out = 49
        /\ (call.poly = 7 /\ call.init = 0 /\ call.data = <<128>>) => call.out = 137
        /\ (call.poly = 49 /\ call.init = 255 /\ call.data = <<0>>) => call.out = 172
        /\ buf = <<>> /\ q = <<>> /\ wire = <<>> /\ ser = "None"

\* crc8(b"") has returned 0
C18_Witness ==
    /\ call.op = "crc8"
    /\ call.pc = "done"
    /\ call.poly = CRC_POLY
    /\ call.init = 0
    /\ call.data = <<>>
    /\ call.out = 0

-----------------------------------------------------------------------------
(* Garbage without a start byte, then a valid frame *)

\* longest run of garbage before the frame
MaxGarbage == 6

\* garbage bytes: none is the start byte
GarbageBytes == {0, 2}

GarbageItems ==
    {NoiseItem(g) : g \in SeqsUpTo(GarbageBytes, MaxGarbage) \ {<<>>}}

GarbageStreams == {<<g, f>> : g \in GarbageItems, f \in {ReportT, CommandA}}

InitGarbage == InitWith(GarbageStreams, {NoCall})

SpecGarbage == InitGarbage /\ [][NextRx]_vars

\* the loop state entered with the buffer b, everything else as it is now
LoopState(b) ==
    [buf |-> b, q |-> q, max |-> q_max, pending |-> <<>>, handled |-> handled,
     err |-> "none", ctl |-> "continue"]

\* the buffers an iteration of the pass can be entered with once the read
\* has returned: the suffixes, of at least 5 bytes, of the buffer extended by
\* what the read can return
NextBuffers ==
    UNION {{SubSeq(buf \o SubSeq(line, 1, n), k, Len(buf) + n) :
               k \in 1 .. ((Len(buf) + n + 1) - MIN_BUF)} :
           n \in 0 .. Min(READ_MAX, Len(line))}

\* C19: an iteration entered with at least 5 bytes whose head is not 0x55
\* removes exactly the head byte and yields nothing; and a valid frame that
\* follows garbage bytes none of which is 0x55 is handed over and its
\* readings pushed, however the bytes are cut into reads.
C19_Resync ==
    /\ rx_err # "IndexError"
    /\ rx_pc = "read" =>
          \A b \in NextBuffers :
              b[1] # START_BYTE => RxIter(LoopState(b)) = LoopState(Tail(b))
    /\ IsPrefix(q, ReadingsOfAll(sent))
    /\ line = <<>> =>
          /\ handled = BodiesOf(sent)
          /\ q = ReadingsOfAll(sent)
          /\ buf = <<>>

\* a report behind the longest garbage was decoded, the bytes having come in
\* several reads
C19_Witness ==
    /\ line = <<>>
    /\ Len(sent[1].bytes) = MaxGarbage
    /\ sent[2] = ReportT
    /\ reads >= 2
    /\ q = ReadingsOf(ReportT)
    /\ buf = <<>>

-----------------------------------------------------------------------------
(* A candidate slice whose checksum does not match *)

\* the buffer b starts with a complete candidate whose last byte is not the
\* crc8 of its length byte and body
BadCandidate(b) ==
    /\ b[1] = START_BYTE
    /\ Len(b) >= b[2] + 3
    /\ crc8(SubSeq(b, 2, b[2] + 2)) # b[b[2] + 3]

\* C20: an iteration that finds a checksum mismatch removes exactly the
\* length + 3 bytes of the candidate, pushes nothing, raises nothing and the
\* loop goes on: the frames behind a corrupted report that came in the same
\* read are handed over in that pass.
C20_MismatchDropsSlice ==
    /\ rx_err # "IndexError"
    /\ rx_pc = "read" =>
          \A b \in NextBuffers :
              BadCandidate(b) =>
                  RxIter(LoopState(b)) = LoopState(SubSeq(b, b[2] + 4, Len(b)))
    /\ (line = <<>> /\ reads = 1) =>
          /\ handled = BodiesOf(Tail(sent))
          /\ q = ReadingsOfAll(Tail(sent))
          /\ buf = <<>>

\* a report with a corrupted payload byte, an actuator command and a report
\* came in one read: the first was dropped, the others handed over
C20_Witness ==
    /\ line = <<>>
    /\ reads = 1
    /\ Len(sent) = 3
    /\ sent[1].kind = "corrupt"
    /\ sent[1].bytes[5] # ReportT.bytes[5]
    /\ handled = <<BodyOf(CommandA), BodyOf(ReportH)>>
    /\ q = ReadingsOf(ReportH)

-----------------------------------------------------------------------------
(* A frame that is not yet complete *)

\* the buffer b starts with the start byte and holds less than the candidate
PartialFrame(b) ==
    /\ b # <<>>
    /\ b[1] = START_BYTE
    /\ Len(b) >= 2 => Len(b) < b[2] + 3

\* an iteration entered with a partial frame returns and changes nothing
C21_PartialState ==
    rx_pc = "read" =>
        \A b \in NextBuffers :
            PartialFrame(b) =>
                RxIter(LoopState(b)) = [LoopState(b) EXCEPT !.ctl = "return"]

\* a read that returns no byte leaves a buffered partial frame, the queue and
\* the bodies handed over as they were
C21_EmptyReadStep ==
    (rx_pc = "read" /\ rx_pc' = "while" /\ line' = line /\ PartialFrame(buf)) =>
        /\ buf' = buf
        /\ q' = q
        /\ handled' = handled

\* C21: with the start byte at the head and fewer than length + 3 bytes
\* buffered the pass stops, removes no byte and pushes no reading, and the
\* buffered prefix stays as it is over every later read that returns nothing.
C21_PartialKept ==
    []C21_PartialState /\ [][C21_EmptyReadStep]_vars

\* a pass has ended on a partial frame of 5 bytes or more, bytes still to come
C21_Witness ==
    /\ rx_pc = "while"
    /\ Len(buf) >= MIN_BUF
    /\ PartialFrame(buf)
    /\ line # <<>>
    /\ handled = <<>>

-----------------------------------------------------------------------------
(* The end of a pass *)

\* the pass the read starts when it returns n bytes
PassOf(n) == RxPassMax(buf, q, handled, SubSeq(line, 1, n), q_max)

\* C22: every iteration of the loop either returns or leaves the buffer
\* strictly shorter, so every pass ends, whatever the buffer and the chunk
\* read: by the loop test with fewer than 5 bytes left, by the return on a
\* partial frame, or by an exception of _handle; it may have handed over no
\* frame, one, or several.
C22_PassTerminates ==
    rx_pc = "read" =>
        /\ \A b \in NextBuffers :
              LET r == RxIter(LoopState(b))
              IN  r.ctl = "return" \/ Len(r.buf) < Len(b)
        /\ \A n \in 0 .. Min(READ_MAX, Len(line)) :
              LET r == PassOf(n)
              IN  \/ r.ctl = "continue" /\ Len(r.buf) < MIN_BUF
                  \/ r.ctl = "return" /\ PartialFrame(r.buf)
                  \/ r.ctl = "raise"

\* one pass has handed over two frames
C22_Witness ==
    /\ rx_pc = "while"
    /\ reads = 1
    /\ line = <<>>
    /\ Len(handled) = 2
    /\ buf = <<>>

-----------------------------------------------------------------------------
(* Candidates whose length byte is 0 or 1 *)

\* bytes that pass the checksum comparison with a body of no byte or of one
RuntItems ==
    {NoiseItem(<<START_BYTE, 0, crc8(<<0>>)>>)}
    \cup {NoiseItem(<<START_BYTE, 1, c, crc8(<<1, c>>)>>) :
             c \in {CMD_SENSOR, CMD_ACTUATOR}}

RuntStreams ==
    {<<r, f>> : r \in RuntItems, f \in {ReportT, CommandA}}
    \cup {<<f, r>> : r \in RuntItems, f \in {ReportT, CommandA}}

InitRunt == InitWith(RuntStreams, {NoCall})

SpecRunt == InitRunt /\ [][NextRx]_vars

\* C23: no pass raises, whatever bytes were read: every body handed to
\* _handle has at least the two bytes it indexes.
C23_PassNeverRaises ==
    /\ rx_err # "IndexError"
    /\ \A j \in 1 .. Len(handled) : Len(handled[j]) >= 2

\* C24: however the stream is cut into reads, once the receive loop has taken
\* all it will take, the readings pushed and the buffer are those of the
\* whole stream fed in one read.
C24_ChunkingInvariant ==
    (/\ rx_pc \in {"while", "raised"}
     /\ rx_err \notin TransportErrors
     /\ line = <<>> \/ rx_err = "IndexError") =>
        /\ q = FedWhole(sent).q
        /\ buf = FedWhole(sent).buf

-----------------------------------------------------------------------------
(* Where the readings come from *)

\* noise, reports with a byte changed, and valid frames
MixedItems ==
    {NoiseItem(<<0>>), NoiseItem(<<START_BYTE, 2>>),
     CorruptItem(ReportT, 7, 0),
     CorruptItem(ReportT, Len(ReportT.bytes), 0),
     ReportT, ReportH, CommandB}

MixedStreams == SeqsUpTo(MixedItems, 2) \ {<<>>}

InitMixed == InitWith(MixedStreams, {NoCall})

SpecMixed == InitMixed /\ [][NextRx]_vars

\* the slice whose body is b and whose last byte is the crc8 of the bytes
\* between the start byte and the checksum
SliceOf(b) == <<START_BYTE, Len(b)>> \o b \o <<crc8(<<Len(b)>> \o b)>>

\* the bytes s occur, one after the other, in the bytes l
Occurs(s, l) ==
    \E k \in 0 .. (Len(l) - Len(s)) : SubSeq(l, k + 1, k + Len(s)) = s

RECURSIVE ReportReadings(_)
\* the readings of the bodies, among bodies, whose command byte is 0x01
ReportReadings(bodies) ==
    IF bodies = <<>> THEN <<>>
    ELSE LET b == Head(bodies)
         IN  (IF Len(b) >= 2 /\ b[1] = CMD_SENSOR
              THEN DecodeSensorReport(b[2], SubSeq(b, 3, Len(b)))
              ELSE <<>>)
             \o ReportReadings(Tail(bodies))

\* C25: the readings on the queue are those of the bodies handed to _handle
\* whose command byte is 0x01, and every such body was cut from received
\* bytes that start with 0x55, count length + 3 and end with the crc8 of the
\* bytes between; nothing is pushed for a slice that failed the checksum or
\* for bytes dropped in resynchronisation.
C25_ReadingProvenance ==
    /\ \A j \in 1 .. Len(handled) :
          /\ Len(SliceOf(handled[j])) = Len(handled[j]) + 3
          /\ Occurs(SliceOf(handled[j]), LineOf(sent))
    /\ q = ReportReadings(handled)

\* a report with a changed byte was dropped, the report behind it decoded
C25_Witness ==
    /\ line = <<>>
    /\ Len(sent) = 2
    /\ sent[1].kind = "corrupt"
    /\ sent[2] = ReportH
    /\ handled = <<BodyOf(ReportH)>>
    /\ q = ReadingsOf(ReportH)

-----------------------------------------------------------------------------
(* send_actuator and the state of the transport *)

\* C26: send_actuator never reaches write or flush on a transport that is not
\* open: no call ends in the AttributeError of self._ser being None or in the
\* PortNotOpenError of a port that stop() has closed.
C26_WriteOnlyWhenOpen ==
    \A s \in Senders : snd_pc[s] \notin {"AttributeError", "PortNotOpenError"}

-----------------------------------------------------------------------------
(* Reports of the registered nodes, and the queue pump of the GUI *)

\* one-entry reports of type TEMP, HUM or PRESS from the nodes 1..3
GuiReports ==
    {ReportItem(n, <<<<t, num, 235, 0>>>>) : n \in 1 .. 3, t \in 0 .. 2,
                                            num \in {0, 1}}

\* the receive thread and the queue pump
NextGui ==
    \/ NextRx
    \/ Consume

InitGui == InitWith({<<r>> : r \in GuiReports}, {NoCall})

SpecGui == InitGui /\ [][NextGui]_vars

\* C27: every reading of type TEMP, HUM or PRESS of a node 1..3 that
\* _pump_queue has taken had a sensor_id that is a key of the registry, and
\* was recorded on that sensor.
C27_ReadingAttributed ==
    \A i \in 1 .. Len(pumped) : pumped[i].kept

-----------------------------------------------------------------------------
(* Long candidates and long noise *)

\* bytes that follow the header of a long candidate, and length of long noise
LongFill == 300

\* a header that announces 255 body bytes, then zeros; the longest valid
\* frame, then a report; noise longer than any frame
StallStreams ==
    {<<NoiseItem(<<START_BYTE, ByteMod - 1>> \o Fill(LongFill, 0))>>,
     <<FrameItem(CMD_ACTUATOR, 2, Fill(MaxFit, 167)), ReportT>>,
     <<NoiseItem(Fill(LongFill, 0))>>}

InitStall == InitWith(StallStreams, {NoCall})

SpecStall == InitStall /\ [][NextRx]_vars

\* C28: the buffer never holds more than 257 bytes, one less than the
\* largest candidate of 255 + 3 bytes, whatever was received and however
\* long the sender stalls.
C28_BufferBounded == Len(buf) <= 257

\* a pass has ended with 257 bytes of a candidate of 258 buffered
C28_Witness ==
    /\ rx_pc = "while"
    /\ Len(buf) = 257
    /\ PartialFrame(buf)

=============================================================================
